---- MODULE Spec2Model ----
(***************************************************************************)
(* Model of the Rocket.Chat push gateway: the request pipeline             *)
(* (withRCRequest), the APN and FCM handlers, the forwarder and the        *)
(* per-destination stats/breaker registry.                                 *)
(*                                                                         *)
(* One request is one process; its steps are the accesses to shared        *)
(* memory (the registry, the atomic counters, disabledUntil), the clock    *)
(* reads and the blocking outbound calls.  Purely local code between two   *)
(* such points is part of the step that precedes it.                       *)
(***************************************************************************)
EXTENDS Integers, Sequences, FiniteSets, TLC

\* ------------------------------------------------------------------ bounds
MaxReqs == 3        \* inbound requests of a run
MaxTime == 3        \* clock ticks of a run
UintptrModulus == 256   \* 2^w of a uintptr, for a word of w = 8 bits

\* --------------------------------------------------------------- constants
disabledDelay == 2  \* time.Hour, counted in clock ticks

StatusOK == 200
StatusBadRequest == 400
StatusMethodNotAllowed == 405
StatusNotAcceptable == 406
StatusUnprocessableEntity == 422
StatusInternalServerError == 500

apnsUpstreamTopic == "chat.rocket.ios"
upstreamGateway == "gateway.rocket.chat"
apnsTopic == "my.app.topic"           \* os.Getenv("RCPG_APNS_TOPIC")
FilterText == "You have a new message"

\* ------------------------------------------------------- optional values
\* A Go pointer or slice that may be nil: <<>> is nil, <<x>> points to x.
None == <<>>
Some(x) == <<x>>
Val(o) == o[1]

Reqs == 1..MaxReqs

\* ------------------------------------------------------ the notification
\* RCPayload: the fields the gateway reads, and the content ones it drops.
MkPayload(host, mid, nt, sender, type) ==
    [host |-> host, messageId |-> mid, notificationType |-> nt,
     sender |-> sender, type |-> type]

\* RCPushNotification: the fields the dispatch logic reads.
MkData(title, text, topic, uid, apnText, payload) ==
    [title |-> title, text |-> text, topic |-> topic, uniqueId |-> uid,
     apnText |-> apnText, payload |-> payload]

ZeroData == MkData("", "", "", "", "", None)

\* Request bytes: the JSON value they hold, whether they parse, and whether
\* they are in the form json.Marshal writes (field order, no unknown fields,
\* no white space) or not.
MkRaw(valid, form, json) == [valid |-> valid, form |-> form, json |-> json]

\* json.Unmarshal(r.body, &r.data): unknown fields and layout are dropped.
Unmarshal(raw) == raw.json

\* json.Marshal(r.data): always the canonical form.
Marshal(d) == MkRaw(TRUE, "canonical", d)

\* ------------------------------------------------------- request checks
\* Mutant of RequestError: the method is not looked at.
RequestErrorBodyOnly(in) ==
    IF ~in.body.valid THEN StatusBadRequest ELSE 0

\* The status withRCRequest answers a request it does not accept with: 405
\* for a method other than POST, 400 for a body that does not parse; 0 when
\* the request is accepted.
RequestError(in) ==
    IF in.method # "POST" THEN StatusMethodNotAllowed
    ELSE IF ~in.body.valid THEN StatusBadRequest
    ELSE 0

\* ------------------------------------------------------ the privacy filter
\* Mutant of ShouldFilter: the notification type is not looked at.
ShouldFilterAnyType(filter, d) == d.payload # None /\ filter

\* The condition under which withRCRequest rewrites the notification.
ShouldFilter(filter, d) ==
    /\ d.payload # None
    /\ filter
    /\ Val(d.payload).notificationType = "message"

\* The rewritten notification.
FilterData(filter, d) ==
    IF ShouldFilter(filter, d)
    THEN [d EXCEPT !.title = "",
                   !.text = FilterText,
                   !.payload = Some(MkPayload(Val(d.payload).host,
                                              Val(d.payload).messageId,
                                              "message-id-only", "", ""))]
    ELSE d

\* Mutant of FilterBody: the filter forgets to clear r.body.
FilterBodyKept(filter, d, raw) == Some(raw)

\* Mutant of FilterBody: a filtered endpoint always clears r.body.
FilterBodyCleared(filter, d, raw) == IF filter THEN None ELSE Some(raw)

\* r.body after the filter: nil once the notification was rewritten.
FilterBody(filter, d, raw) ==
    IF ShouldFilter(filter, d) THEN None ELSE Some(raw)

\* The filter step of withRCRequest as a function of r.data and r.body (nil
\* or the bytes held): the notification and body it leaves.
ApplyFilter(filter, n) ==
    [data |-> FilterData(filter, n.data),
     body |-> IF n.body = None THEN None
              ELSE FilterBody(filter, n.data, Val(n.body))]

\* host, as withRCRequest reads it.
HostOf(d) == IF d.payload # None THEN Val(d.payload).host ELSE ""

\* r.ejson as the handlers use it, string(r.ejson): the marshalled payload,
\* or the empty string when there is no payload.
EJson(d) == d.payload

\* ------------------------------------------------------------ the registry
\* key := id + ip + host
Key(id, ip, host) == id \o ip \o host

\* Mutant of LoadOrStore: a plain Store, the caller keeps its own entry.
StoreAlways(m, k, e) ==
    [map |-> [x \in DOMAIN m \cup {k} |-> IF x = k THEN e ELSE m[x]],
     actual |-> e]

\* sync.Map.LoadOrStore: the map afterwards and the entry returned.
LoadOrStore(m, k, e) ==
    IF k \in DOMAIN m
    THEN [map |-> m, actual |-> m[k]]
    ELSE [map |-> m @@ (k :> e), actual |-> e]

\* Mutant of Add: a counter one bit wide.
AddWrapping(c, delta) == (c + delta) % 2

\* Mutant of Add: the counter is left as it was.
AddNothing(c, delta) == c

\* atomic.Uintptr.Add
Add(c, delta) == c + delta

\* apn+fcm-forwarded, in uintptr arithmetic.
Direct(a, f, fw) == (a + f - fw) % UintptrModulus

\* Mutant of Before: no deadline is ever taken to be ahead.
BeforeNever(nowv, p) == FALSE

\* Mutant of Before: a deadline is ahead only at the instant it is stored.
BeforeAtStoreOnly(nowv, p) == nowv + disabledDelay <= p.t

\* Mutant of Before: the deadline is taken to expire one tick early.
BeforeEarly(nowv, p) == nowv + 1 < p.t

\* time.Now().Before(*t)
Before(nowv, p) == nowv < p.t

\* Mutant of CompareAndSwap: an unconditional Store(nil).
SwapAlways(cur, old, new) == [val |-> new, ok |-> TRUE]

\* atomic.Pointer.CompareAndSwap: pointers are compared by identity.
CompareAndSwap(cur, old, new) ==
    IF cur = old THEN [val |-> new, ok |-> TRUE] ELSE [val |-> cur, ok |-> FALSE]

\* Mutant of disable: the cooldown is added to an existing deadline.
disableExtend(cur, nowv, r) ==
    IF cur # None
    THEN Some([by |-> r, t |-> Val(cur).t + disabledDelay])
    ELSE Some([by |-> r, t |-> nowv + disabledDelay])

\* status.disable: a fresh time.Time, allocated by request r, is stored.
disable(cur, nowv, r) == Some([by |-> r, t |-> nowv + disabledDelay])

\* ----------------------------------------------------------------- routing
\* Mutant of APNRoute: the sentinel topic is not looked at.
APNRouteNoSentinel(topic) ==
    IF topic # apnsTopic THEN "reject" ELSE "push"

\* Mutant of APNRoute: a topic that is not this instance's is forwarded.
APNRouteForwardUnknown(topic) ==
    IF topic # apnsTopic THEN "forward" ELSE "push"

\* The APN handler's decision on opt.Topic.
APNRoute(topic) ==
    IF topic = apnsUpstreamTopic THEN "forward"
    ELSE IF topic # apnsTopic THEN "reject"
    ELSE "push"

\* ------------------------------------------------------------- responses
MkResp(status, header, rbody) == [status |-> status, header |-> header, body |-> rbody]

\* w.WriteHeader(status) of the gateway's own: no header, no body.
Own(status) == MkResp(status, "", "")

\* Mutant of Relay: the upstream body is not written back.
RelayNoBody(u) == MkResp(u.status, u.header, "")

\* copyHeader, w.WriteHeader(resp.StatusCode), w.Write(body)
Relay(u) == MkResp(u.status, u.header, u.body)

\* Mutant of ForwardAnswer: a failed upstream call is answered 502.
ForwardAnswerBadGateway(u) ==
    IF u.err THEN Own(502) ELSE Relay(u)

\* What forward() writes once http.DefaultClient.Do has returned.
ForwardAnswer(u) ==
    IF u.err THEN Own(StatusInternalServerError) ELSE Relay(u)

\* Mutant of ForwardTrips: a failed upstream call trips the breaker as well.
ForwardTripsOnError(u) ==
    u.err \/ (u.status >= 300 /\ u.status = StatusUnprocessableEntity)

\* Mutant of ForwardTrips: every upstream status >= 300 trips the breaker.
ForwardTripsOnFailure(u) == ~u.err /\ u.status >= 300

\* forward() calls r.stats.disable() once http.DefaultClient.Do has returned.
ForwardTrips(u) ==
    ~u.err /\ u.status >= 300 /\ u.status = StatusUnprocessableEntity

\* Mutant of AfterUpstream: forward() waits for another upstream response.
AfterUpstreamHang(u) == "upstream"

\* Mutant of AfterUpstream: a failed upstream call is issued again.
AfterUpstreamRetry(u) == IF u.err THEN "send" ELSE "done"

\* Where forward() goes once http.DefaultClient.Do has returned: it writes
\* its answer and returns, whatever the outcome.
AfterUpstream(u) == "done"

\* Mutant of Trip: one breaker for all destinations.
TripAll(du, e, nowv, r) == [x \in DOMAIN du |-> disable(du[x], nowv, r)]

\* r.stats.disable(): disabledUntil of the request's own entry e is stored.
Trip(du, e, nowv, r) == [du EXCEPT ![e] = disable(du[e], nowv, r)]

\* The context an outbound call runs under, by the point the request waits
\* at: http.DefaultClient.Do(r.http) runs under the context of the inbound
\* request it replays; client.Push(n) is given no context and
\* client.Send(context.Background(), msg) a fresh one.
OutboundContext(at) == IF at = "upstream" THEN "inbound" ELSE "background"

\* The outbound call request r waits for has been cancelled.
CallCancelled(done, at) == done /\ OutboundContext(at) = "inbound"

\* What http.DefaultClient.Do can return: an error, or a response.
UpstreamStatuses == {StatusOK, 404, StatusUnprocessableEntity}
UpstreamResults ==
    {[err |-> TRUE, status |-> 0, header |-> "", body |-> ""]}
    \cup {[err |-> FALSE, status |-> s, header |-> "up-header", body |-> "up-body"] :
            s \in UpstreamStatuses}

\* What client.Push of apns2 can return: an error, or a response with its
\* status and reason (Sent() is StatusCode == 200).
APNResults ==
    { [err |-> TRUE, status |-> 0, reason |-> ""],
      [err |-> FALSE, status |-> StatusOK, reason |-> ""],
      [err |-> FALSE, status |-> StatusBadRequest, reason |-> "BadDeviceToken"],
      [err |-> FALSE, status |-> StatusBadRequest, reason |-> "DeviceTokenNotForTopic"],
      [err |-> FALSE, status |-> 410, reason |-> "Unregistered"],
      [err |-> FALSE, status |-> 429, reason |-> "TooManyRequests"],
      [err |-> FALSE, status |-> 503, reason |-> "ServiceUnavailable"] }

\* What client.Send of the FCM client can return: no error, an error for
\* which IsUnregistered holds, one for which IsSenderIDMismatch holds, or any
\* other error (unavailable, internal, quota, invalid argument).
FCMResults == {"ok", "unregistered", "sender-mismatch", "other"}

\* Mutant of FCMAnswer: every error of client.Send is swallowed.
FCMAnswerSwallow(res) == StatusOK

\* Mutant of APNAnswer: an unregistered token is answered like any other
\* rejection, with the provider's status.
APNAnswerUnregisteredRelayed(res) ==
    IF res.err THEN StatusInternalServerError
    ELSE IF res.status # StatusOK
    THEN IF res.reason \in {"BadDeviceToken", "DeviceTokenNotForTopic"}
         THEN StatusNotAcceptable
         ELSE res.status
    ELSE StatusOK

\* The status the APN handler writes once client.Push has returned.
APNAnswer(res) ==
    IF res.err THEN StatusInternalServerError
    ELSE IF res.status # StatusOK
    THEN IF res.reason \in {"BadDeviceToken", "DeviceTokenNotForTopic",
                            "Unregistered"}
         THEN StatusNotAcceptable
         ELSE res.status
    ELSE StatusOK

\* Mutant of FCMForwards: a sender mismatch is an error like any other.
FCMForwardsNever(res) == FALSE

\* The FCM handler hands the request to forward(): the error is not
\* IsUnregistered, and IsSenderIDMismatch holds.
FCMForwards(res) == res # "ok" /\ res # "unregistered" /\ res = "sender-mismatch"

\* The status the FCM handler writes itself once client.Send has returned.
FCMAnswer(res) ==
    IF res # "ok"
    THEN IF res = "unregistered" THEN StatusNotAcceptable ELSE StatusBadRequest
    ELSE StatusOK

\* ------------------------------------------------------------------ inputs
MkInput(method, provider, filter, ip, raw) ==
    [method |-> method, provider |-> provider, filter |-> filter, ip |-> ip,
     body |-> raw]

NoInput == MkInput("", "", FALSE, "", MkRaw(FALSE, "canonical", ZeroData))

\* The requests of the breaker specification: well-formed, unfiltered
\* requests for one destination on the APN endpoint, with the sentinel topic.
SentinelInputs ==
    { MkInput("POST", "apn", FALSE, "10.0.0.1",
              MkRaw(TRUE, "loose",
                    MkData("hi", "hello", apnsUpstreamTopic, "a", "",
                           Some(MkPayload("h", "m1", "message", "alice", "d"))))) }

\* The requests of the routing specification: every method, endpoint, body
\* and topic, with and without payload.
Payloads ==
    {None} \cup {Some(MkPayload("h", "m1", nt, "alice", "d")) :
                    nt \in {"message", "message-id-only", ""}}
RouteInputs ==
    { MkInput(m, p, f, "10.0.0.1", raw) :
        m \in {"POST", "GET"}, p \in {"apn", "gcm"}, f \in BOOLEAN,
        raw \in {MkRaw(FALSE, "loose", ZeroData)} \cup
                { MkRaw(TRUE, form, MkData("hi", "hello", topic, "a", "", pl)) :
                    form \in {"canonical", "loose"},
                    topic \in {apnsUpstreamTopic, apnsTopic, "other.topic"},
                    pl \in Payloads } }

\* The requests of the filter specification: notifications of type message
\* on the filtered endpoints, with every content field taking two values.
ContentInputs ==
    { MkInput("POST", p, TRUE, "10.0.0.1",
              MkRaw(TRUE, "canonical",
                    MkData(title, text, topic, "a", apnText,
                           Some(MkPayload("h", "m1", "message", sender, type))))) :
        p \in {"apn", "gcm"}, topic \in {apnsUpstreamTopic, apnsTopic},
        title \in {"hi", "yo"}, text \in {"hello", "bye"},
        apnText \in {"", "secret"}, sender \in {"alice", "bob"},
        type \in {"d", "c"} }

\* Of these, the ones with one fixed content.
ReferenceInputs ==
    { in \in ContentInputs :
        /\ in.body.json.title = "hi" /\ in.body.json.text = "hello"
        /\ in.body.json.apnText = ""
        /\ Val(in.body.json.payload).sender = "alice"
        /\ Val(in.body.json.payload).type = "d" }

\* The requests of the stats specification: forwards on the APN endpoint for
\* destinations that differ in uniqueId and in caller address.
KeyInputs ==
    { MkInput("POST", "apn", FALSE, ip,
              MkRaw(TRUE, "canonical",
                    MkData("hi", "hello", apnsUpstreamTopic, uid, "",
                           Some(MkPayload("h", "m1", "message", "alice", "d"))))) :
        uid \in {"x", "x1"}, ip \in {"12.0.0.1", "2.0.0.1"} }

\* -------------------------------------------------------------------- state
VARIABLES
    now,            \* the clock
    ctxDone,        \* r.http.Context() is done: the caller has gone away
    page,           \* statsHandler: where it is, and the values it loaded
    reqID,          \* reqID atomic.Uintptr
    stats,          \* stats sync.Map: key -> entry (named by its creator)
    apn, fcm, forwarded,    \* the counters of each entry
    disabledUntil,  \* disabledUntil of each entry
    pc,             \* where each request is
    inp,            \* the inbound request
    body,           \* r.body
    data,           \* r.data
    rstats,         \* r.stats (0: not yet set)
    t,              \* isDisabled's local t
    resp,           \* what was written to w
    sent,           \* the request issued to the upstream relay
    pushed,         \* the notification handed to a provider adapter
    upstream,       \* what the upstream call returned
    log,            \* history: what each request did so far
    lastDisable,    \* history: the last deadline disable() stored, per entry
    cleared         \* history: <<request, deadline>> of every successful clear

shared == <<stats, apn, fcm, forwarded, disabledUntil>>
local == <<inp, body, data, rstats, t>>
outs == <<resp, sent, pushed, upstream>>
hist == <<log, lastDisable, cleared>>
vars == <<now, ctxDone, page, reqID, shared, pc, local, outs, hist>>

\* The history of a request: how many times it called LoadOrStore, each
\* adapter, forward() and the upstream relay, and how isDisabled returned
\* ("open": nothing stored, "disabled": deadline ahead, "cleared": its swap
\* won, "lost": its swap lost); what client.Push and client.Send returned to
\* it; and what disabledUntil held when its disable() stored over it.
NoLog == [store |-> 0, apn |-> 0, fcm |-> 0, fwd |-> 0, up |-> 0, gate |-> "",
          push |-> None, send |-> None, over |-> None]

\* statsHandler before stats.Range: no entry visited, no row written.
NoPage == [at |-> "range", e |-> 0, apn |-> 0, fcm |-> 0, row |-> None]

Init ==
    /\ now = 0
    /\ ctxDone = [r \in Reqs |-> FALSE]
    /\ page = NoPage
    /\ reqID = 0
    /\ stats = <<>>
    /\ apn = [e \in Reqs |-> 0]
    /\ fcm = [e \in Reqs |-> 0]
    /\ forwarded = [e \in Reqs |-> 0]
    /\ disabledUntil = [e \in Reqs |-> None]
    /\ pc = [r \in Reqs |-> "idle"]
    /\ inp = [r \in Reqs |-> NoInput]
    /\ body = [r \in Reqs |-> None]
    /\ data = [r \in Reqs |-> ZeroData]
    /\ rstats = [r \in Reqs |-> 0]
    /\ t = [r \in Reqs |-> None]
    /\ resp = [r \in Reqs |-> None]
    /\ sent = [r \in Reqs |-> None]
    /\ pushed = [r \in Reqs |-> None]
    /\ upstream = [r \in Reqs |-> None]
    /\ log = [r \in Reqs |-> NoLog]
    /\ lastDisable = [e \in Reqs |-> None]
    /\ cleared = {}

\* The key getStats computes for request r.
KeyOf(r) == Key(data[r].uniqueId, inp[r].ip, HostOf(data[r]))

\* ------------------------------------------------------------------ actions
\* The clock advances.
Tick ==
    /\ now < MaxTime
    /\ now' = now + 1
    /\ UNCHANGED <<ctxDone, page, reqID, shared, pc, local, outs, hist>>

\* withRCRequest up to stats.Load(key) in getStats: the request id, the
\* method check, the body read and parse, the filter, and the lookup.
Receive(r, in) ==
    /\ pc[r] = "idle"
    /\ reqID = r - 1
    /\ reqID' = r
    /\ inp' = [inp EXCEPT ![r] = in]
    /\ IF RequestError(in) # 0
       THEN /\ body' = [body EXCEPT ![r] =
                           IF in.method # "POST" THEN None ELSE Some(in.body)]
            /\ resp' = [resp EXCEPT ![r] = Some(Own(RequestError(in)))]
            /\ pc' = [pc EXCEPT ![r] = "done"]
            /\ UNCHANGED <<data, rstats>>
       ELSE LET d == Unmarshal(in.body)
                fd == FilterData(in.filter, d)
                key == Key(fd.uniqueId, in.ip, HostOf(fd))
            IN  /\ data' = [data EXCEPT ![r] = fd]
                /\ body' = [body EXCEPT ![r] = FilterBody(in.filter, d, in.body)]
                /\ resp' = resp
                /\ IF key \in DOMAIN stats
                   THEN /\ rstats' = [rstats EXCEPT ![r] = stats[key]]
                        /\ pc' = [pc EXCEPT ![r] = "handler"]
                   ELSE /\ rstats' = rstats
                        /\ pc' = [pc EXCEPT ![r] = "store"]
    /\ UNCHANGED <<now, ctxDone, page, shared, t, sent, pushed, upstream, hist>>

\* getStats after a missed Load: a new status is allocated and LoadOrStore'd.
GetStatsStore(r) ==
    /\ pc[r] = "store"
    /\ LET los == LoadOrStore(stats, KeyOf(r), r)
       IN  /\ stats' = los.map
           /\ rstats' = [rstats EXCEPT ![r] = los.actual]
    /\ log' = [log EXCEPT ![r].store = @ + 1]
    /\ pc' = [pc EXCEPT ![r] = "handler"]
    /\ UNCHANGED <<now, ctxDone, page, reqID, apn, fcm, forwarded, disabledUntil,
                   inp, body, data, t, outs, lastDisable, cleared>>

\* The APN handler up to forward(), the rejection, or client.Push.
APNHandler(r) ==
    /\ pc[r] = "handler"
    /\ inp[r].provider = "apn"
    /\ apn' = [apn EXCEPT ![rstats[r]] = Add(@, 1)]
    /\ IF APNRoute(data[r].topic) = "forward"
       THEN /\ pc' = [pc EXCEPT ![r] = "forward"]
            /\ log' = [log EXCEPT ![r].fwd = @ + 1]
            /\ UNCHANGED <<resp, pushed>>
       ELSE IF APNRoute(data[r].topic) = "reject"
       THEN /\ resp' = [resp EXCEPT ![r] = Some(Own(StatusNotAcceptable))]
            /\ pc' = [pc EXCEPT ![r] = "done"]
            /\ UNCHANGED <<pushed, log>>
       ELSE /\ pushed' = [pushed EXCEPT ![r] =
                  Some([kind |-> "apn",
                        title |-> data[r].title,
                        alert |-> IF data[r].apnText # "" THEN data[r].apnText
                                  ELSE data[r].text,
                        ejson |-> EJson(data[r]),
                        mutable |-> /\ data[r].payload # None
                                    /\ Val(data[r].payload).notificationType
                                         = "message-id-only"])]
            /\ log' = [log EXCEPT ![r].apn = @ + 1]
            /\ pc' = [pc EXCEPT ![r] = "apnPush"]
            /\ resp' = resp
    /\ UNCHANGED <<now, ctxDone, page, reqID, stats, fcm, forwarded, disabledUntil,
                   local, sent, upstream, lastDisable, cleared>>

\* client.Push returns.
APNPushReturn(r, res) ==
    /\ pc[r] = "apnPush"
    /\ CallCancelled(ctxDone[r], "apnPush") => res.err
    /\ resp' = [resp EXCEPT ![r] = Some(Own(APNAnswer(res)))]
    /\ log' = [log EXCEPT ![r].push = Some(res)]
    /\ pc' = [pc EXCEPT ![r] = "done"]
    /\ UNCHANGED <<now, ctxDone, page, reqID, shared, local, sent, pushed, upstream,
                   lastDisable, cleared>>

\* The FCM handler up to client.Send.
GCMHandler(r) ==
    /\ pc[r] = "handler"
    /\ inp[r].provider = "gcm"
    /\ fcm' = [fcm EXCEPT ![rstats[r]] = Add(@, 1)]
    /\ pushed' = [pushed EXCEPT ![r] =
          Some([kind |-> "fcm",
                title |-> data[r].title,
                alert |-> data[r].text,
                ejson |-> EJson(data[r]),
                mutable |-> FALSE])]
    /\ log' = [log EXCEPT ![r].fcm = @ + 1]
    /\ pc' = [pc EXCEPT ![r] = "fcmSend"]
    /\ UNCHANGED <<now, ctxDone, page, reqID, stats, apn, forwarded, disabledUntil,
                   local, resp, sent, upstream, lastDisable, cleared>>

\* client.Send returns.
FCMSendReturn(r, res) ==
    /\ pc[r] = "fcmSend"
    /\ CallCancelled(ctxDone[r], "fcmSend") => res = "other"
    /\ IF FCMForwards(res)
       THEN /\ resp' = resp
            /\ pc' = [pc EXCEPT ![r] = "forward"]
            /\ log' = [log EXCEPT ![r].fwd = @ + 1, ![r].send = Some(res)]
       ELSE /\ resp' = [resp EXCEPT ![r] = Some(Own(FCMAnswer(res)))]
            /\ pc' = [pc EXCEPT ![r] = "done"]
            /\ log' = [log EXCEPT ![r].send = Some(res)]
    /\ UNCHANGED <<now, ctxDone, page, reqID, shared, local, sent, pushed, upstream,
                   lastDisable, cleared>>

\* forward() up to the clock read of isDisabled: forwarded.Add(1),
\* disabledUntil.Load(), time.Now().Before(*t).
ForwardEnter(r) ==
    /\ pc[r] = "forward"
    /\ LET e == rstats[r]
           p == disabledUntil[e]
       IN  /\ forwarded' = [forwarded EXCEPT ![e] = Add(@, 1)]
           /\ t' = [t EXCEPT ![r] = IF p # None /\ ~Before(now, Val(p)) THEN p ELSE None]
           /\ log' = [log EXCEPT ![r].gate = IF p = None THEN "open"
                                             ELSE IF Before(now, Val(p)) THEN "disabled"
                                             ELSE ""]
           /\ IF p = None
              THEN /\ pc' = [pc EXCEPT ![r] = "send"]
                   /\ resp' = resp
              ELSE IF Before(now, Val(p))
              THEN /\ pc' = [pc EXCEPT ![r] = "done"]
                   /\ resp' = [resp EXCEPT ![r] = Some(Own(StatusUnprocessableEntity))]
              ELSE /\ pc' = [pc EXCEPT ![r] = "cas"]
                   /\ resp' = resp
    /\ UNCHANGED <<now, ctxDone, page, reqID, stats, apn, fcm, disabledUntil,
                   inp, body, data, rstats, sent, pushed, upstream,
                   lastDisable, cleared>>

\* isDisabled: return !s.disabledUntil.CompareAndSwap(t, nil)
IsDisabledCAS(r) ==
    /\ pc[r] = "cas"
    /\ LET e == rstats[r]
           cas == CompareAndSwap(disabledUntil[e], t[r], None)
       IN  /\ disabledUntil' = [disabledUntil EXCEPT ![e] = cas.val]
           /\ cleared' = IF disabledUntil[e] # None /\ cas.val = None
                         THEN cleared \cup {<<r, Val(disabledUntil[e])>>}
                         ELSE cleared
           /\ log' = [log EXCEPT ![r].gate = IF cas.ok THEN "cleared" ELSE "lost"]
           /\ IF cas.ok
              THEN /\ pc' = [pc EXCEPT ![r] = "send"]
                   /\ resp' = resp
              ELSE /\ pc' = [pc EXCEPT ![r] = "done"]
                   /\ resp' = [resp EXCEPT ![r] = Some(Own(StatusUnprocessableEntity))]
    /\ t' = [t EXCEPT ![r] = None]
    /\ UNCHANGED <<now, ctxDone, page, reqID, stats, apn, fcm, forwarded,
                   inp, body, data, rstats, sent, pushed, upstream, lastDisable>>

\* forward() from the URL rewrite to http.DefaultClient.Do: the body is
\* rebuilt when r.body is nil, and the call is issued.
ForwardSend(r) ==
    /\ pc[r] = "send"
    /\ LET b == IF body[r] = None THEN Marshal(data[r]) ELSE Val(body[r])
       IN  /\ body' = [body EXCEPT ![r] = Some(b)]
           /\ sent' = [sent EXCEPT ![r] = Some([host |-> upstreamGateway, body |-> b])]
    /\ log' = [log EXCEPT ![r].up = @ + 1]
    /\ pc' = [pc EXCEPT ![r] = "upstream"]
    /\ UNCHANGED <<now, ctxDone, page, reqID, shared, inp, data, rstats, t,
                   resp, pushed, upstream, lastDisable, cleared>>

\* http.DefaultClient.Do returns: the error answer, or the relay of the
\* upstream response, with the breaker tripped on 422.
UpstreamReturn(r, u) ==
    /\ pc[r] = "upstream"
    /\ CallCancelled(ctxDone[r], "upstream") => u.err
    /\ upstream' = [upstream EXCEPT ![r] = Some(u)]
    /\ resp' = [resp EXCEPT ![r] = Some(ForwardAnswer(u))]
    /\ IF ForwardTrips(u)
       THEN LET e == rstats[r]
            IN  /\ disabledUntil' = Trip(disabledUntil, e, now, r)
                /\ lastDisable' = [lastDisable EXCEPT ![e] =
                       Some([by |-> r, t |-> now + disabledDelay])]
                /\ log' = [log EXCEPT ![r].over = disabledUntil[e]]
       ELSE UNCHANGED <<disabledUntil, lastDisable, log>>
    /\ pc' = [pc EXCEPT ![r] = AfterUpstream(u)]
    /\ UNCHANGED <<now, ctxDone, page, reqID, stats, apn, fcm, forwarded,
                   local, sent, pushed, cleared>>

\* The caller of request r goes away while the request is being handled:
\* the server cancels the context of the inbound request.
Cancel(r) ==
    /\ pc[r] \notin {"idle", "done"}
    /\ ~ctxDone[r]
    /\ ctxDone' = [ctxDone EXCEPT ![r] = TRUE]
    /\ UNCHANGED <<now, page, reqID, shared, pc, local, outs, hist>>

\* statsHandler, the callback of stats.Range on entry e: stats.apn.Load().
StatsLoadApn(e) ==
    /\ page.at = "range"
    /\ \E k \in DOMAIN stats : stats[k] = e
    /\ page' = [page EXCEPT !.at = "fcm", !.e = e, !.apn = apn[e]]
    /\ UNCHANGED <<now, ctxDone, reqID, shared, pc, local, outs, hist>>

\* stats.fcm.Load()
StatsLoadFcm ==
    /\ page.at = "fcm"
    /\ page' = [page EXCEPT !.at = "forwarded", !.fcm = fcm[page.e]]
    /\ UNCHANGED <<now, ctxDone, reqID, shared, pc, local, outs, hist>>

\* stats.forwarded.Load(), and the row written with apn+fcm-forwarded.
StatsLoadForwarded ==
    /\ page.at = "forwarded"
    /\ LET fw == forwarded[page.e]
       IN  page' = [page EXCEPT
                      !.at = "range",
                      !.row = Some([e |-> page.e,
                                    direct |-> Direct(page.apn, page.fcm, fw),
                                    apn |-> page.apn, fcm |-> page.fcm,
                                    forwarded |-> fw])]
    /\ UNCHANGED <<now, ctxDone, reqID, shared, pc, local, outs, hist>>

\* ------------------------------------------------------------ specification
\* The steps of forward() for the requests `reqs`, the upstream call drawing
\* its outcome from upRes.
ForwardSteps(reqs, upRes) ==
    \/ \E r \in reqs : ForwardEnter(r)
    \/ \E r \in reqs : IsDisabledCAS(r)
    \/ \E r \in reqs : ForwardSend(r)
    \/ \E r \in reqs : \E u \in upRes : UpstreamReturn(r, u)

\* The steps of the provider adapters' callers, each call drawing its outcome
\* from apnRes or fcmRes.
ProviderSteps(reqs, apnRes, fcmRes) ==
    \/ \E r \in reqs : \E res \in apnRes : APNPushReturn(r, res)
    \/ \E r \in reqs : GCMHandler(r)
    \/ \E r \in reqs : \E res \in fcmRes : FCMSendReturn(r, res)

\* The breaker under contention: MaxReqs concurrent requests of one
\* destination, all routed to forward() by their sentinel topic.
Next ==
    \/ Tick
    \/ \E r \in Reqs : \E in \in SentinelInputs : Receive(r, in)
    \/ \E r \in Reqs : GetStatsStore(r)
    \/ \E r \in Reqs : APNHandler(r)
    \/ ForwardSteps(Reqs, UpstreamResults)

Spec == Init /\ [][Next]_vars

\* Routing: a forward for the destination, then any request at all, with
\* every outcome of every outbound call.
RouteReqs == {1, 2}
NextRoute ==
    \/ Tick
    \/ \E in \in SentinelInputs : Receive(1, in)
    \/ \E in \in RouteInputs : Receive(2, in)
    \/ \E r \in RouteReqs : GetStatsStore(r)
    \/ \E r \in RouteReqs : APNHandler(r)
    \/ ProviderSteps(RouteReqs, APNResults, FCMResults)
    \/ ForwardSteps(RouteReqs, UpstreamResults)

SpecRoute == Init /\ [][NextRoute]_vars

\* The filter: a reference request and one that differs from it in content,
\* both delivered, directly or through the upstream relay.
NextFilter ==
    \/ \E in \in ReferenceInputs : Receive(1, in)
    \/ \E in \in ContentInputs : Receive(2, in)
    \/ \E r \in RouteReqs : GetStatsStore(r)
    \/ \E r \in RouteReqs : APNHandler(r)
    \/ \E r \in RouteReqs : \E res \in {a \in APNResults : ~a.err /\ a.status = StatusOK} :
          APNPushReturn(r, res)
    \/ \E r \in RouteReqs : GCMHandler(r)
    \/ \E r \in RouteReqs : \E res \in {"ok", "sender-mismatch"} : FCMSendReturn(r, res)
    \/ \E r \in RouteReqs : ForwardEnter(r)
    \/ \E r \in RouteReqs : ForwardSend(r)
    \/ \E r \in RouteReqs : \E u \in {x \in UpstreamResults : ~x.err /\ x.status = StatusOK} :
          UpstreamReturn(r, u)

SpecFilter == Init /\ [][NextFilter]_vars

\* The stats page rendered, again and again, while two requests of any two
\* destinations are forwarded.
NextStats ==
    \/ \E r \in RouteReqs : \E in \in KeyInputs : Receive(r, in)
    \/ \E r \in RouteReqs : GetStatsStore(r)
    \/ \E r \in RouteReqs : APNHandler(r)
    \/ \E r \in RouteReqs : ForwardEnter(r)
    \/ \E r \in RouteReqs : ForwardSend(r)
    \/ \E r \in RouteReqs :
          \E u \in {x \in UpstreamResults : ~x.err /\ x.status # 404} :
             UpstreamReturn(r, u)
    \/ \E e \in RouteReqs : StatsLoadApn(e)
    \/ StatsLoadFcm
    \/ StatsLoadForwarded

SpecStats == Init /\ [][NextStats]_vars

\* Progress: the routing specification with every request's own steps taken
\* when they can be (a handler goroutine that can run does run), and the
\* outbound calls of every request but StuckReq returning; the calls of
\* StuckReq may stay in flight for ever.
StuckReq == 1
LocalStep(r) ==
    \/ GetStatsStore(r)
    \/ APNHandler(r)
    \/ GCMHandler(r)
    \/ ForwardEnter(r)
    \/ IsDisabledCAS(r)
    \/ ForwardSend(r)
CallReturns(r) ==
    \/ \E res \in APNResults : APNPushReturn(r, res)
    \/ \E res \in FCMResults : FCMSendReturn(r, res)
    \/ \E u \in UpstreamResults : UpstreamReturn(r, u)

SpecLive ==
    /\ Init /\ [][NextRoute]_vars
    /\ \A r \in RouteReqs : WF_vars(LocalStep(r))
    /\ \A r \in RouteReqs \ {StuckReq} : WF_vars(CallReturns(r))

\* Cancellation: the routing specification, with callers that may go away
\* at any point of their request.
NextCancel ==
    \/ NextRoute
    \/ \E r \in RouteReqs : Cancel(r)

SpecCancel == Init /\ [][NextCancel]_vars

\* --------------------------------------------------------------- properties
\* The request was well-formed: a POST whose body parsed.
WellFormed(r) == inp[r].method = "POST" /\ inp[r].body.valid

\* The request has been through its handler's routing decision.
Routed(r) == WellFormed(r) /\ pc[r] \notin {"idle", "store", "handler"}

\* The topic the request came with.
TopicOf(r) == inp[r].body.json.topic

\* The last deadline stored for entry e lies ahead.
Cooling(e) == lastDisable[e] # None /\ now < Val(lastDisable[e]).t

\* Request r's breaker check ends in this step, and r is short-circuited.
ShortCircuits(r) ==
    /\ pc[r] \in {"forward", "cas"}
    /\ pc'[r] = "done"
    /\ resp'[r] = Some(Own(StatusUnprocessableEntity))
    /\ sent'[r] = None
    /\ log'[r].up = 0

\* C1: once disable() has completed for an entry, every request for that
\* entry that enters forward() (its breaker check) while the stored deadline
\* is still ahead is answered with the gateway's own 422 and makes no
\* upstream call.
C1_DisabledWithinCooldown ==
    [][\A r \in Reqs :
         (pc[r] = "forward" /\ pc'[r] # "forward" /\ Cooling(rstats[r]))
            => ShortCircuits(r)]_vars

\* A request was short-circuited on entry while the cooldown was running.
C1_Witness ==
    \E r \in Reqs :
        /\ pc[r] = "done"
        /\ log[r].gate = "disabled"
        /\ Cooling(rstats[r])
        /\ resp[r] = Some(Own(StatusUnprocessableEntity))

\* C2: once the cooldown of an entry has elapsed and no new 422 has arrived
\* since, every forward attempt that begins after the expiry is let through
\* to the upstream call, whatever other requests for the entry do meanwhile.
\* (A request at its swap holds in t the deadline it loaded; when that is
\* still the last deadline stored, no 422 has arrived since it began.)
C2_ExpiredLetsEveryoneThrough ==
    [][\A r \in Reqs :
         /\ (pc[r] = "forward" /\ pc'[r] # "forward" /\ ~Cooling(rstats[r]))
               => pc'[r] \in {"cas", "send"}
         /\ (pc[r] = "cas" /\ pc'[r] # "cas" /\ t[r] = lastDisable[rstats[r]])
               => pc'[r] = "send"]_vars

\* C3: isDisabled returns true if and only if disabledUntil is set and still
\* ahead when it returns, under any interleaving.
C3_IsDisabledIffSetAndAhead ==
    [][\A r \in Reqs :
         (pc[r] \in {"forward", "cas"} /\ pc'[r] \in {"done", "send"})
            => ((pc'[r] = "done") <=>
                  /\ disabledUntil'[rstats[r]] # None
                  /\ now < Val(disabledUntil'[rstats[r]]).t)]_vars

\* C4: however many first-time getStats calls run concurrently for a key,
\* the registry holds one entry for it and every caller holds that entry; no
\* counter of an entry outside the registry is ever incremented.
C4_OneEntryPerKey ==
    /\ \A r \in Reqs :
         rstats[r] # 0 =>
            /\ KeyOf(r) \in DOMAIN stats
            /\ stats[KeyOf(r)] = rstats[r]
    /\ \A e \in Reqs :
         apn[e] + fcm[e] + forwarded[e] > 0 =>
            \E k \in DOMAIN stats : stats[k] = e

\* Two requests both missed the Load, both called LoadOrStore, and hold the
\* same entry.
C4_Witness ==
    \E r1, r2 \in Reqs :
        /\ r1 # r2
        /\ log[r1].store = 1 /\ log[r2].store = 1
        /\ rstats[r1] # 0 /\ rstats[r1] = rstats[r2]
        /\ apn[rstats[r1]] > 1

Altered(r) ==
    WellFormed(r) /\ pc[r] # "idle" /\ data[r] # Unmarshal(inp[r].body)

\* C6: once the filter has rewritten a notification, r.body never holds the
\* bytes received again, and what forward() sends upstream is a fresh
\* serialization of the rewritten notification, not the bytes received.
C6_AlteredNeverForwardsOriginal ==
    \A r \in Reqs :
        Altered(r) =>
           /\ body[r] # Some(inp[r].body)
           /\ pc[r] \in {"store", "handler", "apnPush", "fcmSend", "forward",
                         "cas", "send"} => body[r] = None
           /\ sent[r] # None =>
                /\ Val(sent[r]).body = Marshal(data[r])
                /\ Val(sent[r]).body # inp[r].body

\* A rewritten notification was sent upstream.
C6_Witness == \E r \in Reqs : Altered(r) /\ sent[r] # None

\* The notification as received already carries no content.
ContentFree(d) ==
    d.payload # None /\ Val(d.payload).notificationType = "message-id-only"

\* C7: on a filtered endpoint, a notification that is not already
\* message-id-only (whatever its type, absent and empty included) reaches the
\* handler with an empty title, the placeholder text, and a payload of only
\* host, messageId and notificationType = message-id-only.
C7_FilterRewritesAllButContentFree ==
    \A r \in Reqs :
        LET d == Unmarshal(inp[r].body) IN
        (WellFormed(r) /\ inp[r].filter /\ pc[r] # "idle" /\ ~ContentFree(d))
           => /\ data[r].title = ""
              /\ data[r].text = FilterText
              /\ d.payload # None =>
                   data[r].payload =
                      Some(MkPayload(Val(d.payload).host, Val(d.payload).messageId,
                                     "message-id-only", "", ""))

\* C8: when the upstream answers 422, the entry's disabledUntil is set to
\* now + cooldown and the caller gets the upstream status, header and body
\* as they came.
C8_TripOn422RelaysVerbatim ==
    [][\A r \in Reqs :
         (/\ pc[r] = "upstream" /\ pc'[r] = "done"
          /\ ~Val(upstream'[r]).err
          /\ Val(upstream'[r]).status = StatusUnprocessableEntity)
            => /\ disabledUntil'[rstats[r]]
                    = Some([by |-> r, t |-> now + disabledDelay])
               /\ resp'[r] = Some(MkResp(StatusUnprocessableEntity,
                                         Val(upstream'[r]).header,
                                         Val(upstream'[r]).body))]_vars

\* An upstream 422 was relayed by a request whose deadline is stored.
C8_Witness ==
    \E r \in Reqs :
        /\ pc[r] = "done"
        /\ upstream[r] # None
        /\ Val(upstream[r]).status = StatusUnprocessableEntity
        /\ resp[r] = Some(Relay(Val(upstream[r])))
        /\ disabledUntil[rstats[r]] # None
        /\ Val(disabledUntil[rstats[r]]).by = r

\* C9: disabledUntil goes from a deadline to nil only by the swap of a
\* request that loaded that very deadline; a swap that finds another deadline
\* than the one it loaded changes nothing; and no deadline is cleared by more
\* than one request.
C9_ClearOnlyObservedDeadline ==
    [][/\ \A e \in Reqs :
            (disabledUntil[e] # None /\ disabledUntil'[e] = None)
               => \E r \in Reqs :
                     /\ pc[r] = "cas" /\ pc'[r] = "send"
                     /\ rstats[r] = e
                     /\ t[r] = disabledUntil[e]
                     /\ ~Before(now, Val(t[r]))
       /\ \A r \in Reqs :
            (pc[r] = "cas" /\ pc'[r] # "cas" /\ t[r] # disabledUntil[rstats[r]])
               => (disabledUntil' = disabledUntil /\ pc'[r] = "done")
       /\ \A c1, c2 \in cleared' : c1[2] = c2[2] => c1[1] = c2[1]]_vars

\* A swap lost to a newer deadline, which is still stored, after another
\* deadline had been cleared.
C9_Witness ==
    \E r \in Reqs :
        /\ log[r].gate = "lost"
        /\ disabledUntil[rstats[r]] # None
        /\ Val(disabledUntil[rstats[r]]).by # r

\* C10: a well-formed request on the direct-APN endpoint whose topic is
\* neither the sentinel nor the configured one is answered 406, a client
\* error, and neither an adapter nor forward() is called.
C10_UnknownTopicRejected ==
    \A r \in Reqs :
        (/\ Routed(r) /\ inp[r].provider = "apn"
         /\ TopicOf(r) \notin {apnsUpstreamTopic, apnsTopic})
           => /\ pc[r] = "done"
              /\ resp[r] = Some(Own(StatusNotAcceptable))
              /\ Val(resp[r]).status \in 400..499
              /\ log[r].apn = 0 /\ log[r].fcm = 0
              /\ log[r].fwd = 0 /\ log[r].up = 0

\* A request with an unknown topic was rejected on the APN endpoint.
C10_Witness ==
    \E r \in Reqs :
        /\ Routed(r) /\ inp[r].provider = "apn"
        /\ TopicOf(r) \notin {apnsUpstreamTopic, apnsTopic}
        /\ resp[r] # None

\* ------------------------------------------------- provider outcomes
\* What the adapter called for request r reported, in the gateway's terms.
\* invalid-token: APNs rejected the push with BadDeviceToken,
\* DeviceTokenNotForTopic or Unregistered; FCM's error is IsUnregistered.
InvalidToken(r) ==
    \/ /\ log[r].push # None
       /\ ~Val(log[r].push).err
       /\ Val(log[r].push).status # StatusOK
       /\ Val(log[r].push).reason \in {"BadDeviceToken", "DeviceTokenNotForTopic",
                                        "Unregistered"}
    \/ log[r].send = Some("unregistered")

\* sender-mismatch: FCM's error is IsSenderIDMismatch.
SenderMismatch(r) == log[r].send = Some("sender-mismatch")

\* sent: the provider accepted the notification.
ProviderSent(r) ==
    \/ /\ log[r].push # None
       /\ ~Val(log[r].push).err
       /\ Val(log[r].push).status = StatusOK
    \/ log[r].send = Some("ok")

\* transient-failure: the adapter returned, and reported none of the above.
Transient(r) ==
    /\ log[r].push # None \/ log[r].send # None
    /\ ~ProviderSent(r) /\ ~InvalidToken(r) /\ ~SenderMismatch(r)

\* C11: on the direct-FCM endpoint a sender-mismatch hands the request to
\* forward() instead of failing it; when isDisabled lets it through and the
\* upstream call returns a response, the caller gets the upstream status,
\* header and body as they came, and the handler writes nothing of its own.
C11_SenderMismatchForwards ==
    \A r \in Reqs :
        SenderMismatch(r) =>
           /\ inp[r].provider = "gcm"
           /\ log[r].fwd = 1
           /\ pc[r] \in {"forward", "cas", "send", "upstream", "done"}
           /\ pc[r] \in {"forward", "cas", "send", "upstream"} => resp[r] = None
           /\ (pc[r] = "done" /\ log[r].gate \in {"open", "cleared"}) =>
                 /\ upstream[r] # None
                 /\ ~Val(upstream[r]).err =>
                       resp[r] = Some(MkResp(Val(upstream[r]).status,
                                             Val(upstream[r]).header,
                                             Val(upstream[r]).body))

\* A sender-mismatch on the FCM endpoint ended with the upstream's 200, header
\* and body relayed.
C11_Witness ==
    \E r \in Reqs :
        /\ SenderMismatch(r)
        /\ pc[r] = "done"
        /\ upstream[r] # None
        /\ Val(upstream[r]).status = StatusOK
        /\ resp[r] = Some(MkResp(StatusOK, "up-header", "up-body"))

\* C12: whenever an adapter, APN or FCM, reports invalid-token, the request
\* ends with 406 Not Acceptable and forward() is not invoked for it.
C12_InvalidTokenIs406 ==
    \A r \in Reqs :
        InvalidToken(r) =>
           /\ pc[r] = "done"
           /\ resp[r] = Some(Own(StatusNotAcceptable))
           /\ log[r].fwd = 0 /\ log[r].up = 0
           /\ sent[r] = None

\* APNs answered 410 Unregistered and the caller got 406.
C12_Witness ==
    \E r \in Reqs :
        /\ log[r].push # None
        /\ Val(log[r].push).reason = "Unregistered"
        /\ resp[r] = Some(Own(StatusNotAcceptable))

\* C13: whenever an adapter reports a failure that is neither invalid-token
\* nor sender-mismatch, the status written to the caller is a 5xx.
C13_TransientIs5xx ==
    \A r \in Reqs :
        (Transient(r) /\ pc[r] = "done")
           => (resp[r] # None /\ Val(resp[r]).status \in 500..599)

\* C14: among the responses the gateway writes itself, 406 is written only
\* for a request whose adapter reported invalid-token.
C14_406OnlyOnInvalidToken ==
    \A r \in Reqs :
        (/\ pc[r] = "done"
         /\ upstream[r] = None
         /\ resp[r] = Some(Own(StatusNotAcceptable)))
           => InvalidToken(r)

\* ---------------------------------------------------- breaker frame
\* Request r's upstream call returns in this step.
UpstreamReturns(r) == pc[r] = "upstream" /\ pc'[r] = "done"

\* C15: no step in which an adapter call returns changes disabledUntil of
\* any entry, and a deadline is stored only by a request in forward() whose
\* upstream call returns a response with status 422.
C15_OnlyUpstream422Disables ==
    [][/\ \A r \in Reqs :
            (pc[r] \in {"apnPush", "fcmSend"} /\ pc'[r] # pc[r])
               => disabledUntil' = disabledUntil
       /\ \A e \in Reqs :
            (disabledUntil'[e] # disabledUntil[e] /\ disabledUntil'[e] # None)
               => \E r \in Reqs :
                     /\ UpstreamReturns(r)
                     /\ rstats[r] = e
                     /\ ~Val(upstream'[r]).err
                     /\ Val(upstream'[r]).status = StatusUnprocessableEntity]_vars

\* An adapter reported invalid-token for a destination whose deadline,
\* stored by an earlier forward, is still the one stored.
C15_Witness ==
    \E r \in Reqs :
        /\ InvalidToken(r)
        /\ pc[r] = "done"
        /\ disabledUntil[rstats[r]] # None
        /\ Val(disabledUntil[rstats[r]]).by # r
        /\ disabledUntil[rstats[r]] = lastDisable[rstats[r]]

\* C16: when the upstream call returns a response whose status is not 422,
\* below or from 300 on, disabledUntil of every entry is left as it was and
\* the caller gets that status.
C16_Non422LeavesBreaker ==
    [][\A r \in Reqs :
         (/\ UpstreamReturns(r)
          /\ ~Val(upstream'[r]).err
          /\ Val(upstream'[r]).status # StatusUnprocessableEntity)
            => /\ disabledUntil' = disabledUntil
               /\ resp'[r] # None
               /\ Val(resp'[r]).status = Val(upstream'[r]).status]_vars

\* The upstream answered 404 to a request whose destination another request
\* had disabled meanwhile: the 404 is relayed, the deadline is still stored.
C16_Witness ==
    \E r \in Reqs :
        /\ pc[r] = "done"
        /\ upstream[r] # None
        /\ ~Val(upstream[r]).err
        /\ Val(upstream[r]).status = 404
        /\ Val(resp[r]).status = 404
        /\ disabledUntil[rstats[r]] # None

\* C17: when the upstream call fails, the caller gets 500 Internal Server
\* Error and disabledUntil of every entry is what it was before the call
\* returned.
C17_UpstreamErrorIs500 ==
    [][\A r \in Reqs :
         (UpstreamReturns(r) /\ Val(upstream'[r]).err)
            => /\ resp'[r] = Some(Own(StatusInternalServerError))
               /\ disabledUntil' = disabledUntil
               /\ lastDisable' = lastDisable]_vars

\* The upstream call of one request failed while the destination was
\* disabled by another: 500, and the deadline is still stored.
C17_Witness ==
    \E r \in Reqs :
        /\ pc[r] = "done"
        /\ upstream[r] # None
        /\ Val(upstream[r]).err
        /\ resp[r] = Some(Own(StatusInternalServerError))
        /\ disabledUntil[rstats[r]] # None

\* C18: disable() stores now + disabledDelay whatever disabledUntil held:
\* on an entry that is already disabled the cooldown restarts from now, it
\* is not added to the deadline stored; no other entry is touched.
C18_DisableRestartsFromNow ==
    [][\A r \in Reqs :
         (/\ UpstreamReturns(r)
          /\ ~Val(upstream'[r]).err
          /\ Val(upstream'[r]).status = StatusUnprocessableEntity)
            => /\ disabledUntil'[rstats[r]] # None
               /\ Val(disabledUntil'[rstats[r]]).t = now + disabledDelay
               /\ \A e \in Reqs \ {rstats[r]} :
                     disabledUntil'[e] = disabledUntil[e]]_vars

\* A disable() stored over a deadline that was still ahead: the new deadline
\* is later than the old one and earlier than the old one plus the cooldown.
C18_Witness ==
    \E r \in Reqs :
        /\ log[r].over # None
        /\ disabledUntil[rstats[r]] # None
        /\ Val(disabledUntil[rstats[r]]).by = r
        /\ Val(disabledUntil[rstats[r]]).t > Val(log[r].over).t
        /\ Val(disabledUntil[rstats[r]]).t < Val(log[r].over).t + disabledDelay

\* The requests that have gone through forwarded.Add(1) on entry e.
Counted(e) ==
    {r \in Reqs : rstats[r] = e /\ log[r].fwd > 0 /\ pc[r] # "forward"}

\* C19: the forwarded counter of an entry is the number of requests routed
\* to forward() for it, each counted once, short-circuited or sent upstream;
\* a request that is not routed to forward() does not count.
C19_ForwardedCountsRoutings ==
    /\ \A r \in Reqs : log[r].fwd <= 1
    /\ \A e \in Reqs : forwarded[e] = Cardinality(Counted(e))

\* A request was short-circuited by the breaker and counted, after one that
\* went upstream.
C19_Witness ==
    \E r \in Reqs :
        /\ pc[r] = "done"
        /\ log[r].gate = "disabled"
        /\ log[r].up = 0
        /\ forwarded[rstats[r]] = 2

\* ------------------------------------------------------- idempotence
\* r.data and r.body of request r, as the filter step takes and leaves them.
Held(r) == [data |-> data[r], body |-> body[r]]

\* The notification as received, before the filter step.
Received(r) == [data |-> Unmarshal(inp[r].body), body |-> Some(inp[r].body)]

\* C20: the filter is idempotent.  A notification received with
\* notificationType message-id-only passes the filter step with title, text,
\* payload and r.body unchanged; and applying the filter step again to what
\* it left, on either endpoint's setting, gives the same notification and
\* body: filter(filter(n)) = filter(n).
C20_FilterIdempotent ==
    \A r \in Reqs :
        (WellFormed(r) /\ pc[r] \in {"store", "handler"}) =>
           /\ Held(r) = ApplyFilter(inp[r].filter, Received(r))
           /\ ContentFree(Received(r).data) => Held(r) = Received(r)
           /\ ApplyFilter(inp[r].filter, Held(r)) = Held(r)
           /\ ApplyFilter(inp[r].filter, ApplyFilter(inp[r].filter, Received(r)))
                = ApplyFilter(inp[r].filter, Received(r))

\* A message-id-only notification with a title and a text of its own is past
\* the filter step of a filtered endpoint, as it was received.
C20_Witness ==
    \E r \in Reqs :
        /\ WellFormed(r) /\ pc[r] = "handler" /\ inp[r].filter
        /\ ContentFree(Received(r).data)
        /\ data[r].title = "hi" /\ data[r].text = "hello"
        /\ body[r] = Some(inp[r].body)

\* ------------------------------------------------ frames of requests
\* C21: a request on a filtered endpoint whose notification came as
\* message-id-only keeps the bytes received in r.body up to the upstream
\* call, and what forward() sends upstream is those bytes, layout included,
\* not a serialization of r.data.
C21_ContentFreeForwardsOriginalBytes ==
    \A r \in Reqs :
        (/\ WellFormed(r) /\ inp[r].filter /\ pc[r] # "idle"
         /\ ContentFree(Received(r).data))
           => /\ body[r] = Some(inp[r].body)
              /\ sent[r] # None => Val(sent[r]).body = inp[r].body

\* A message-id-only notification whose bytes are not in the form
\* json.Marshal writes was sent upstream from a filtered endpoint.
C21_Witness ==
    \E r \in Reqs :
        /\ WellFormed(r) /\ inp[r].filter
        /\ ContentFree(Received(r).data)
        /\ inp[r].body.form = "loose"
        /\ sent[r] # None
        /\ Val(sent[r]).body # Marshal(data[r])

\* C22: a request with a method other than POST is answered 405 and one
\* whose body does not parse 400; the step that answers it changes neither
\* the registry, nor a counter, nor a disabledUntil, and the request makes no
\* outbound call and holds no entry.
C22_MalformedChangesNothing ==
    [][\A r \in Reqs :
         (/\ pc[r] = "idle" /\ pc'[r] # "idle"
          /\ (inp'[r].method # "POST" \/ ~inp'[r].body.valid))
            => /\ pc'[r] = "done"
               /\ resp'[r] = Some(Own(IF inp'[r].method # "POST"
                                        THEN StatusMethodNotAllowed
                                        ELSE StatusBadRequest))
               /\ Val(resp'[r]).status \in 400..499
               /\ shared' = shared
               /\ rstats'[r] = 0
               /\ sent'[r] = None /\ pushed'[r] = None
               /\ log'[r] = NoLog]_vars

\* A GET whose body would have parsed was answered 405 and holds no entry.
C22_Witness ==
    \E r \in Reqs :
        /\ pc[r] = "done"
        /\ inp[r].method = "GET"
        /\ inp[r].body.valid
        /\ resp[r] = Some(Own(StatusMethodNotAllowed))
        /\ rstats[r] = 0

\* Request r is on the direct-APN endpoint with a topic that is neither the
\* sentinel nor the configured one.
Misrouted(r) ==
    /\ WellFormed(r) /\ inp[r].provider = "apn"
    /\ TopicOf(r) \notin {apnsUpstreamTopic, apnsTopic}

\* C23: a direct-APN request rejected for its topic leaves the registry,
\* the counters and disabledUntil as they were: none of its steps, from the
\* registry lookup to the rejection, changes them.
C23_MisroutedChangesNothing ==
    [][\A r \in Reqs :
         (Misrouted(r) /\ pc[r] \in {"store", "handler"} /\ pc'[r] # pc[r])
            => shared' = shared]_vars

\* C24: nothing is retried: a request calls a provider adapter at most once
\* and the upstream relay at most once, whatever they return.
C24_NoRetry ==
    \A r \in Reqs :
        /\ log[r].apn + log[r].fcm <= 1
        /\ log[r].up <= 1
        /\ pc[r] = "done" =>
              /\ log[r].up = (IF upstream[r] # None THEN 1 ELSE 0)
              /\ log[r].apn = (IF log[r].push # None THEN 1 ELSE 0)
              /\ log[r].fcm = (IF log[r].send # None THEN 1 ELSE 0)

\* A request ended after a failed adapter call followed by a failed upstream
\* call, each made once.
C24_Witness ==
    \E r \in Reqs :
        /\ pc[r] = "done"
        /\ SenderMismatch(r)
        /\ upstream[r] # None /\ Val(upstream[r]).err
        /\ log[r].fcm = 1 /\ log[r].up = 1

\* The point at which request r waits for an outbound call.
InFlight(r) == pc[r] \in {"apnPush", "fcmSend", "upstream"}

\* C25: when the inbound request is cancelled while one of its outbound
\* calls, to a provider adapter or to the upstream relay, is in flight, that
\* call is cancelled too.
C25_CancellationPropagates ==
    \A r \in Reqs :
        (ctxDone[r] /\ InFlight(r)) => CallCancelled(ctxDone[r], pc[r])

\* --------------------------------------------------- registry frames
\* C26: the registry only grows: in every step, every key keeps the entry
\* it has, and no counter of any entry goes down, whatever the interleaving.
C26_RegistryOnlyGrows ==
    [][/\ \A k \in DOMAIN stats : k \in DOMAIN stats' /\ stats'[k] = stats[k]
       /\ \A e \in Reqs :
            /\ apn'[e] >= apn[e]
            /\ fcm'[e] >= fcm[e]
            /\ forwarded'[e] >= forwarded[e]]_vars

\* Two keys have an entry, and one entry has counted twice.
C26_Witness ==
    /\ Cardinality(DOMAIN stats) = 2
    /\ \E e \in Reqs : apn[e] + fcm[e] + forwarded[e] >= 2

\* The step is one in which request r learns of a failure of its own and
\* answers it: an adapter call that did not send, an upstream call that
\* failed or was answered from 300 on.
FailureReturns(r) ==
    \/ /\ pc[r] = "apnPush" /\ pc'[r] = "done"
       /\ Val(log'[r].push).err \/ Val(log'[r].push).status # StatusOK
    \/ /\ pc[r] = "fcmSend" /\ pc'[r] # "fcmSend"
       /\ log'[r].send # Some("ok")
    \/ /\ UpstreamReturns(r)
       /\ Val(upstream'[r]).err \/ Val(upstream'[r]).status >= 300

C28_SuccessOnlyOnSuccess ==
    \A r \in Reqs :
        (resp[r] # None /\ Val(resp[r]).status \in 200..299) =>
           \/ /\ ProviderSent(r)
              /\ upstream[r] = None
           \/ /\ upstream[r] # None
              /\ ~Val(upstream[r]).err
              /\ Val(upstream[r]).status = Val(resp[r]).status

\* A request whose adapter reported a sender mismatch was answered 200, the
\* status the upstream relay answered with.
C28_Witness ==
    \E r \in Reqs :
        /\ SenderMismatch(r)
        /\ resp[r] # None
        /\ Val(resp[r]).status = StatusOK
        /\ Val(upstream[r]).status = StatusOK

\* C29: disabledUntil of an entry goes from unset to set, and from one
\* deadline to another, only by an upstream 422 of a request of that entry;
\* it goes from set to unset only in the swap of a request of that entry,
\* at a time at which the deadline cleared has passed; a step in which an
\* upstream call or an adapter call returns never clears it.
C29_SetBy422ClearedAfterExpiry ==
    [][\A e \in Reqs :
         /\ (disabledUntil'[e] # None /\ disabledUntil'[e] # disabledUntil[e])
               => \E r \in Reqs :
                     /\ UpstreamReturns(r) /\ rstats[r] = e
                     /\ ~Val(upstream'[r]).err
                     /\ Val(upstream'[r]).status = StatusUnprocessableEntity
         /\ (disabledUntil[e] # None /\ disabledUntil'[e] = None)
               => /\ Val(disabledUntil[e]).t <= now
                  /\ \E r \in Reqs :
                        pc[r] = "cas" /\ pc'[r] = "send" /\ rstats[r] = e
                  /\ \A r \in Reqs :
                        pc[r] \in {"apnPush", "fcmSend", "upstream"}
                           => pc'[r] = pc[r]]_vars

\* A deadline was stored, expired and was cleared, and the entry has been
\* disabled again since.
C29_Witness ==
    \E c \in cleared :
        /\ c[2].t <= now
        /\ disabledUntil[rstats[c[1]]] # None
        /\ Val(disabledUntil[rstats[c[1]]]).t > c[2].t

\* Request r issues its upstream call in this step.
Issues(r) == pc[r] = "send" /\ pc'[r] = "upstream"

\* C30 (as claimed): at the moment a request issues its upstream call, the
\* disabledUntil of its entry is unset or has passed.
C30_NeverIssuedWhileDisabled ==
    [][\A r \in Reqs :
         Issues(r) =>
            \/ disabledUntil[rstats[r]] = None
            \/ Val(disabledUntil[rstats[r]]).t <= now]_vars

\* C30 (amended): a request issues its upstream call only after isDisabled
\* returned false to it, and at the moment isDisabled returns false the
\* disabledUntil of its entry is unset.
C30_IssuedOnlyAfterOpenCheck ==
    [][\A r \in Reqs :
         /\ Issues(r) => log[r].gate \in {"open", "cleared"}
         /\ (pc[r] \in {"forward", "cas"} /\ pc'[r] = "send")
               => /\ disabledUntil'[rstats[r]] = None
                  /\ disabledUntil[rstats[r]] # None
                        => Val(disabledUntil[rstats[r]]).t <= now]_vars

\* A request issued its upstream call after another request, which it had
\* checked the breaker before, tripped it: the deadline is ahead.
C30_Witness ==
    \E r \in Reqs :
        /\ pc[r] = "upstream"
        /\ log[r].gate = "open"
        /\ disabledUntil[rstats[r]] # None
        /\ now < Val(disabledUntil[rstats[r]]).t

\* ------------------------------------------------------ noninterference
\* Two notifications agree in everything but their content: title, text,
\* the apn.text override, and the payload's sender and type.
SameButContent(d1, d2) ==
    /\ d1.topic = d2.topic /\ d1.uniqueId = d2.uniqueId
    /\ d1.payload # None /\ d2.payload # None
    /\ Val(d1.payload).host = Val(d2.payload).host
    /\ Val(d1.payload).messageId = Val(d2.payload).messageId
    /\ Val(d1.payload).notificationType = Val(d2.payload).notificationType

\* Request r came to a filtered endpoint with a notification of type message.
FilteredMessage(r) ==
    /\ WellFormed(r) /\ inp[r].filter
    /\ Received(r).data.payload # None
    /\ Val(Received(r).data.payload).notificationType = "message"

\* C31: on the filtered endpoints, two requests of type message that differ
\* only in content hand the same notification (title, alert body, ejson) to
\* the adapter and send the same body upstream.
C31_ContentDoesNotReachOutbound ==
    \A r, q \in Reqs :
        (/\ FilteredMessage(r) /\ FilteredMessage(q)
         /\ inp[r].provider = inp[q].provider
         /\ SameButContent(Received(r).data, Received(q).data))
           => /\ (pushed[r] # None /\ pushed[q] # None) => pushed[r] = pushed[q]
              /\ (sent[r] # None /\ sent[q] # None) => sent[r] = sent[q]

\* ------------------------------------------------------------ the stats
\* The destination of request r: uniqueId, caller address, payload host.
Dest(r) == <<data[r].uniqueId, inp[r].ip, HostOf(data[r])>>

\* C32: two requests whose destinations differ in uniqueId, caller address
\* or payload host hold different stats entries.
C32_DistinctDestinationsDistinctEntries ==
    \A r, q \in Reqs :
        (rstats[r] # 0 /\ rstats[q] # 0 /\ Dest(r) # Dest(q))
           => rstats[r] # rstats[q]

\* C33: the direct value of a row of the stats page is apn + fcm - forwarded
\* of the values loaded without wrapping around: the forwarded value loaded
\* is at most the apn and fcm values loaded together.
C33_DirectNeverWraps ==
    page.row # None =>
       /\ Val(page.row).forwarded <= Val(page.row).apn + Val(page.row).fcm
       /\ Val(page.row).direct <= Val(page.row).apn + Val(page.row).fcm

\* Entry e's requests that are past the first statement of their handler.
Handled(e) ==
    {r \in Reqs : rstats[r] = e /\ pc[r] \notin {"idle", "store", "handler"}}

\* C34: for every entry forwarded <= apn + fcm: the requests counted in
\* forwarded are among those counted, before, in apn or fcm.
C34_ForwardedAtMostDirect ==
    \A e \in Reqs :
        /\ forwarded[e] <= apn[e] + fcm[e]
        /\ Counted(e) \subseteq Handled(e)
        /\ apn[e] + fcm[e] = Cardinality(Handled(e))

\* An entry has counted two forwards, one from each endpoint.
C34_Witness ==
    \E e \in Reqs :
        forwarded[e] = 2 /\ apn[e] = 1 /\ fcm[e] = 1

\* ------------------------------------------------------------- progress
\* C35: a request that has been received is answered: it comes to its end
\* with a response written, once and for all, provided its outbound calls
\* return; a request whose outbound call never returns stays in that call
\* and keeps no other request, of the same key or not, from its end.
C35_EveryRequestAnswered ==
    /\ [][\A r \in Reqs :
            /\ resp[r] # None => (resp'[r] = resp[r] /\ pc'[r] = "done")
            /\ pc'[r] = "done" => resp'[r] # None]_vars
    /\ \A r \in Reqs :
          (pc[r] \notin {"idle", "done"})
             ~> \/ pc[r] = "done" /\ resp[r] # None
                \/ r = StuckReq /\ InFlight(r)

\* A request was answered by the upstream relay while the upstream call of
\* another request of the same key, issued before, is still in flight.
C35_Witness ==
    \E r \in Reqs :
        /\ pc[StuckReq] = "upstream"
        /\ r # StuckReq
        /\ rstats[r] = rstats[StuckReq]
        /\ pc[r] = "done"
        /\ upstream[r] # None
        /\ resp[r] # None

====
